---- MODULE Spec2Model ----
(***************************************************************************)
(* Embedded curve solver of the bn254 blackbox solver                      *)
(* (acvm-repo/bn254_blackbox_solver/src/embedded_curve_ops.rs):            *)
(* multi_scalar_mul, embedded_curve_add, create_point, field_to_u128_limb. *)
(*                                                                         *)
(* The arithmetic is scaled down so that every case of the code can be     *)
(* enumerated: the 254-bit field of FieldElement becomes the prime field   *)
(* of FieldModulus elements, the grumpkin curve y^2 = x^3 - 17 becomes the *)
(* curve y^2 = x^3 + CurveB over that field (also of prime order, so also  *)
(* of cofactor 1, and also with a generator of abscissa 1), u64 becomes a  *)
(* word of WordBits bits and u128 a limb of two words.  The order          *)
(*    2^LimbBits < FieldModulus < GroupOrder < 2^(2*LimbBits)              *)
(* is the one of the original: 2^128 < |Fr| < |Fq| < 2^256.                *)
(***************************************************************************)
EXTENDS Integers, Sequences, FiniteSets, TLC

\* ------------------------------------------------------------------------
\* Scaled constants of the arithmetic
\* ------------------------------------------------------------------------
\* Modulus of FieldElement (the base field of the embedded curve).
FieldModulus == 31
\* Constant coefficient of the curve equation y^2 = x^3 + CurveB.
CurveB == 3
\* ark_grumpkin::FrConfig::MODULUS, the order of the curve's group.
GroupOrder == 43
\* Width of u64.
WordBits == 2
\* Width of u128: two u64 words.
LimbBits == 2 * WordBits
\* Number of hex digits of to_hex(): two per byte of the field's byte width.
FieldHexDigits == 2
\* Width of the `{:016x}` format of one u64 word.
WordHexDigits == 16
\* Window width of the bucket method of msm_bigint (at most one word wide).
MsmWindow == 2

RECURSIVE Pow2(_)
Pow2(k) == IF k = 0 THEN 1 ELSE 2 * Pow2(k - 1)

WordRange == Pow2(WordBits)
LimbRange == Pow2(LimbBits)

FieldElement == 0 .. (FieldModulus - 1)

\* ------------------------------------------------------------------------
\* Results
\* ------------------------------------------------------------------------
NoValue == <<>>

\* Ok((x, y, is_infinite))
Ok(x, y, inf) == [tag |-> "Ok", func |-> "", msg |-> "", value |-> <<x, y, inf>>]

\* Err(BlackBoxResolutionError::Failed(func, msg))
Failed(func, msg) == [tag |-> "Err", func |-> func, msg |-> msg, value |-> NoValue]

\* A panic of the Rust runtime (an index out of bounds, a failed assert!).
Panic(msg) == [tag |-> "Panic", func |-> "", msg |-> msg, value |-> NoValue]

\* ------------------------------------------------------------------------
\* Rendering
\* ------------------------------------------------------------------------
HexChars == <<"0", "1", "2", "3", "4", "5", "6", "7",
              "8", "9", "a", "b", "c", "d", "e", "f">>

\* Lowercase hexadecimal, zero-padded to `width` digits, most significant first.
RECURSIVE HexPadded(_, _)
HexPadded(v, width) ==
    IF width = 0 THEN ""
    ELSE HexPadded(v \div 16, width - 1) \o HexChars[(v % 16) + 1]

\* FieldElement::to_hex
to_hex(f) == HexPadded(f, FieldHexDigits)

\* format!("{:016x}", word)
FormatWord(w) == HexPadded(w, WordHexDigits)

\* ------------------------------------------------------------------------
\* Field arithmetic (ark_ff)
\* ------------------------------------------------------------------------
FMod(a) == a % FieldModulus

\* The inverses of the nonzero field elements.
FInvTable ==
    [a \in 1 .. (FieldModulus - 1) |->
        CHOOSE b \in 1 .. (FieldModulus - 1) : (a * b) % FieldModulus = 1]

FInv(a) == FInvTable[a]

\* ------------------------------------------------------------------------
\* Curve arithmetic (ark_ec, ark_grumpkin)
\* ------------------------------------------------------------------------
\* ark_grumpkin::Affine::zero()
AffineZero == [x |-> 0, y |-> 0, infinity |-> TRUE]

\* ark_grumpkin::Affine::new_unchecked(x, y)
new_unchecked(x, y) == [x |-> x, y |-> y, infinity |-> FALSE]

\* Affine::is_zero
is_zero(P) == P.infinity

\* Affine::is_on_curve
is_on_curve(P) ==
    IF P.infinity THEN TRUE
    ELSE FMod(P.y * P.y) = FMod(FMod(P.x * P.x) * P.x + CurveB)

\* Affine::xy: the coordinates of a finite point, None for the identity.
xy(P) == IF P.infinity THEN <<>> ELSE <<P.x, P.y>>

\* Doubling of a finite point.
Double(P) ==
    IF P.infinity \/ P.y = 0 THEN AffineZero
    ELSE LET l  == FMod(3 * FMod(P.x * P.x) * FInv(FMod(2 * P.y)))
             x3 == FMod(l * l - 2 * P.x)
             y3 == FMod(l * (P.x - x3) - P.y)
         IN  new_unchecked(x3, y3)

\* The group law: point1 + point2, converted back to affine form.
Add(P, Q) ==
    IF P.infinity THEN Q
    ELSE IF Q.infinity THEN P
    ELSE IF P.x = Q.x
         THEN IF FMod(P.y + Q.y) = 0 THEN AffineZero ELSE Double(P)
         ELSE LET l  == FMod((Q.y - P.y) * FInv(FMod(Q.x - P.x)))
                  x3 == FMod(l * l - P.x - Q.x)
                  y3 == FMod(l * (P.x - x3) - P.y)
              IN  new_unchecked(x3, y3)

\* Number of bits of k.
RECURSIVE NumBits(_)
NumBits(k) == IF k = 0 THEN 0 ELSE 1 + NumBits(k \div 2)

\* Affine::mul_bigint: double and add, most significant bit first.
RECURSIVE MulBits(_, _, _, _)
MulBits(P, k, bit, acc) ==
    IF bit = 0 THEN acc
    ELSE LET d == Double(acc)
             a == IF (k \div Pow2(bit - 1)) % 2 = 1 THEN Add(d, P) ELSE d
         IN  MulBits(P, k, bit - 1, a)

mul_bigint(P, k) == MulBits(P, k, NumBits(k), AffineZero)

\* Affine::is_in_correct_subgroup_assuming_on_curve: [order]P is the identity.
is_in_correct_subgroup_assuming_on_curve(P) == is_zero(mul_bigint(P, GroupOrder))

\* ------------------------------------------------------------------------
\* BigInt<4>: four u64 words, least significant first (ark_ff)
\* ------------------------------------------------------------------------
\* BigInt::new(limbs_array)
BigIntNew(limbs_array) == limbs_array

\* The integer a BigInt<4> stands for.
BigIntValue(b) ==
    b[1] + WordRange * (b[2] + WordRange * (b[3] + WordRange * b[4]))

\* Ord for BigInt<4>: the words are compared from the most significant down.
RECURSIVE BigIntCmpFrom(_, _, _)
BigIntCmpFrom(a, b, k) ==
    IF k = 0 THEN 0
    ELSE IF a[k] < b[k] THEN -1
    ELSE IF a[k] > b[k] THEN 1
    ELSE BigIntCmpFrom(a, b, k - 1)

BigIntGeq(a, b) == BigIntCmpFrom(a, b, 4) >= 0

\* ark_grumpkin::FrConfig::MODULUS as a BigInt<4>: GroupOrder = 0b00_10_10_11.
MODULUS == <<3, 2, 2, 0>>

\* ScalarField::one().into_bigint()
BigIntOne == <<1, 0, 0, 0>>

\* ScalarField::MODULUS_BIT_SIZE
MODULUS_BIT_SIZE == NumBits(GroupOrder)

\* ------------------------------------------------------------------------
\* Projective::msm_bigint: variable-base multi-scalar multiplication by the
\* bucket method (ark_ec::scalar_mul::variable_base)
\* ------------------------------------------------------------------------
NumBuckets == Pow2(MsmWindow) - 1

\* (scalar >> w_start).as_ref()[0] % (1 << c)
WindowDigit(scalar, w_start) ==
    ((BigIntValue(scalar) \div Pow2(w_start)) % WordRange) % Pow2(MsmWindow)

\* One pass over the pairs for the window at w_start: a scalar of zero is
\* filtered out, a scalar of one is added to the result of the lowest window,
\* any other scalar puts its base in the bucket of its digit.
RECURSIVE FillBuckets(_, _, _, _, _, _)
FillBuckets(bases, big_ints, w_start, j, res, buckets) ==
    IF j > Len(bases) \/ j > Len(big_ints)
    THEN [res |-> res, buckets |-> buckets]
    ELSE LET scalar == big_ints[j]
             base   == bases[j]
             digit  == WindowDigit(scalar, w_start)
         IN  IF BigIntValue(scalar) = 0
             THEN FillBuckets(bases, big_ints, w_start, j + 1, res, buckets)
             ELSE IF scalar = BigIntOne
             THEN FillBuckets(bases, big_ints, w_start, j + 1,
                              IF w_start = 0 THEN Add(res, base) ELSE res,
                              buckets)
             ELSE FillBuckets(bases, big_ints, w_start, j + 1, res,
                              IF digit # 0
                              THEN [buckets EXCEPT ![digit] = Add(@, base)]
                              ELSE buckets)

\* The buckets from the highest down: running_sum += bucket; res += running_sum.
RECURSIVE SumBuckets(_, _, _, _)
SumBuckets(buckets, k, running_sum, res) ==
    IF k = 0 THEN res
    ELSE LET r == Add(running_sum, buckets[k])
         IN  SumBuckets(buckets, k - 1, r, Add(res, r))

WindowSum(bases, big_ints, w_start) ==
    LET filled == FillBuckets(bases, big_ints, w_start, 1, AffineZero,
                              [k \in 1 .. NumBuckets |-> AffineZero])
    IN  SumBuckets(filled.buckets, NumBuckets, AffineZero, filled.res)

\* (0..num_bits).step_by(c)
WindowStarts == {w \in 0 .. (MODULUS_BIT_SIZE - 1) : w % MsmWindow = 0}

RECURSIVE DoubleTimes(_, _)
DoubleTimes(P, k) == IF k = 0 THEN P ELSE DoubleTimes(Double(P), k - 1)

\* The window sums above the lowest, from the highest down:
\* total += sum_i, then c doublings.
RECURSIVE FoldWindows(_, _, _, _)
FoldWindows(bases, big_ints, w_start, total) ==
    IF w_start = 0 THEN total
    ELSE FoldWindows(bases, big_ints, w_start - MsmWindow,
                     DoubleTimes(Add(total, WindowSum(bases, big_ints, w_start)),
                                 MsmWindow))

msm_bigint(bases, big_ints) ==
    LET highest == CHOOSE w \in WindowStarts : \A v \in WindowStarts : v <= w
    IN  Add(WindowSum(bases, big_ints, 0),
            FoldWindows(bases, big_ints, highest, AffineZero))

\* ------------------------------------------------------------------------
\* The solver
\* ------------------------------------------------------------------------
MsmFunc == "MultiScalarMul"
AddFunc == "EmbeddedCurveAdd"

\* The messages; the quotes around is_infinite stand for the backquotes of
\* the source, which a TLA+ string cannot hold.
MsgLength      == "Points and scalars must have the same length"
MsgMalformed   == "EmbeddedCurvePoint is malformed (non-boolean 'is_infinite' flag)"
MsgFlag        == "'is_infinite' flag is non-boolean"
MsgLimb(limb)  == "Limb " \o to_hex(limb) \o " is not less than 2^128"
MsgScalar(hex_str) == hex_str \o " is not a valid grumpkin scalar"
MsgNotOnCurve(x, y) ==
    "Point (" \o to_hex(x) \o ", " \o to_hex(y) \o ") is not on curve"
MsgNotInSubgroup(x, y) ==
    "Point (" \o to_hex(x) \o ", " \o to_hex(y) \o ") is not in correct subgroup"

\* FieldElement::try_into_u128: the value when it fits in a limb, None otherwise.
fits_in_u128(limb) == limb < LimbRange

\* field_to_u128_limb(limb, func): Result<u128, BlackBoxResolutionError>
field_to_u128_limb(limb, func) ==
    IF fits_in_u128(limb)
    THEN [ok |-> TRUE, limb |-> limb, err |-> Failed("", "")]
    ELSE [ok |-> FALSE, limb |-> 0, err |-> Failed(func, MsgLimb(limb))]

\* Mutant of create_point: the coordinates of a point flagged infinite are
\* validated too.
create_point_ChecksInfinite(x, y, is_infinite) ==
    IF is_infinite # 0 /\ is_infinite # 1
    THEN [ok |-> FALSE, point |-> AffineZero, msg |-> MsgFlag]
    ELSE LET point == new_unchecked(x, y)
         IN  IF ~is_on_curve(point)
             THEN [ok |-> FALSE, point |-> AffineZero, msg |-> MsgNotOnCurve(x, y)]
             ELSE IF ~is_in_correct_subgroup_assuming_on_curve(point)
             THEN [ok |-> FALSE, point |-> AffineZero,
                   msg |-> MsgNotInSubgroup(x, y)]
             ELSE [ok |-> TRUE,
                   point |-> IF is_infinite = 1 THEN AffineZero ELSE point,
                   msg |-> ""]

\* create_point(x, y, is_infinite): Result<Affine, String>
create_point(x, y, is_infinite) ==
    IF is_infinite = 1
    THEN [ok |-> TRUE, point |-> AffineZero, msg |-> ""]
    ELSE IF is_infinite # 0
    THEN [ok |-> FALSE, point |-> AffineZero, msg |-> MsgFlag]
    ELSE LET point == new_unchecked(x, y)
         IN  IF ~is_on_curve(point)
             THEN [ok |-> FALSE, point |-> AffineZero, msg |-> MsgNotOnCurve(x, y)]
             ELSE IF ~is_in_correct_subgroup_assuming_on_curve(point)
             THEN [ok |-> FALSE, point |-> AffineZero,
                   msg |-> MsgNotInSubgroup(x, y)]
             ELSE [ok |-> TRUE, point |-> point, msg |-> ""]

\* Mutant of LimbsArray: the upper words are taken without the shift.
LimbsArray_NoShift(scalar_low, scalar_high) ==
    << scalar_low % WordRange, scalar_low % WordRange,
       scalar_high % WordRange, scalar_high % WordRange >>

\* Mutant of LimbsArray: the words of the high limb come first.
LimbsArray_HighFirst(scalar_low, scalar_high) ==
    << scalar_high % WordRange, (scalar_high \div WordRange) % WordRange,
       scalar_low % WordRange, (scalar_low \div WordRange) % WordRange >>

\* [scalar_low as u64, (scalar_low >> 64) as u64,
\*  scalar_high as u64, (scalar_high >> 64) as u64]
LimbsArray(scalar_low, scalar_high) ==
    << scalar_low % WordRange, (scalar_low \div WordRange) % WordRange,
       scalar_high % WordRange, (scalar_high \div WordRange) % WordRange >>

\* format!("{:016x}{:016x}{:016x}{:016x}", limbs[3], limbs[2], limbs[1], limbs[0])
HexStr(limbs_array) ==
    FormatWord(limbs_array[4]) \o FormatWord(limbs_array[3])
        \o FormatWord(limbs_array[2]) \o FormatWord(limbs_array[1])

\* Mutant of MsmOutput: the coordinates are returned in the order (y, x).
MsmOutput_SwappedXY(output_point) ==
    IF xy(output_point) # <<>>
    THEN Ok(xy(output_point)[2], xy(output_point)[1],
            IF is_zero(output_point) THEN 1 ELSE 0)
    ELSE Ok(0, 0, 1)

\* Mutant of MsmOutput: the identity is returned without its flag.
MsmOutput_NoFlag(output_point) ==
    IF xy(output_point) # <<>>
    THEN Ok(xy(output_point)[1], xy(output_point)[2],
            IF is_zero(output_point) THEN 1 ELSE 0)
    ELSE Ok(0, 0, 0)

\* The affine output of multi_scalar_mul as a triple of field elements.
MsmOutput(output_point) ==
    IF xy(output_point) # <<>>
    THEN Ok(xy(output_point)[1], xy(output_point)[2],
            IF is_zero(output_point) THEN 1 ELSE 0)
    ELSE Ok(0, 0, 1)

\* Mutant of LengthMismatch: the lengths of the two limb sequences are not compared.
LengthMismatch_PointsOnly(points, scalars_lo, scalars_hi) ==
    Len(points) # 3 * Len(scalars_lo)

\* Line 30: the lengths of the three sequences do not fit.
LengthMismatch(points, scalars_lo, scalars_hi) ==
    Len(points) # 3 * Len(scalars_lo) \/ Len(scalars_lo) # Len(scalars_hi)

\* Mutant of FlagIsMalformed: only the flag 2 is caught by the early check.
FlagIsMalformed_OnlyTwo(flag) == flag = 2

\* Lines 42 and 102: flag > FieldElement::one(), in the order of the
\* canonical integer representatives.
FlagIsMalformed(flag) == flag > 1

\* An index past the end of a slice.
OutOfBounds == Panic("index out of bounds")

NoLimbs(err) == [ok |-> FALSE, err |-> err, low |-> 0, high |-> 0]

\* Mutant of DecodeLimbs: the high limb is narrowed before the low limb.
DecodeLimbs_HighFirst(scalars_lo, scalars_hi, k) ==
    IF k >= Len(scalars_hi) THEN NoLimbs(OutOfBounds)
    ELSE LET scalar_high == field_to_u128_limb(scalars_hi[k + 1], MsmFunc)
         IN  IF ~scalar_high.ok THEN NoLimbs(scalar_high.err)
             ELSE IF k >= Len(scalars_lo) THEN NoLimbs(OutOfBounds)
             ELSE LET scalar_low == field_to_u128_limb(scalars_lo[k + 1], MsmFunc)
                  IN  IF ~scalar_low.ok THEN NoLimbs(scalar_low.err)
                      ELSE [ok |-> TRUE, err |-> Failed("", ""),
                            low |-> scalar_low.limb, high |-> scalar_high.limb]

\* Mutant of DecodeLimbs: the low limb is read for the high limb too.
DecodeLimbs_LowTwice(scalars_lo, scalars_hi, k) ==
    IF k >= Len(scalars_lo) THEN NoLimbs(OutOfBounds)
    ELSE LET scalar_low == field_to_u128_limb(scalars_lo[k + 1], MsmFunc)
         IN  IF ~scalar_low.ok THEN NoLimbs(scalar_low.err)
             ELSE LET scalar_high == field_to_u128_limb(scalars_lo[k + 1], MsmFunc)
                  IN  IF ~scalar_high.ok THEN NoLimbs(scalar_high.err)
                      ELSE [ok |-> TRUE, err |-> Failed("", ""),
                            low |-> scalar_low.limb, high |-> scalar_high.limb]

\* Lines 51-55: scalars_lo[i / 3] is read and narrowed first, scalars_hi[i / 3]
\* second; the first failure ends the call (k is i / 3).
DecodeLimbs(scalars_lo, scalars_hi, k) ==
    IF k >= Len(scalars_lo) THEN NoLimbs(OutOfBounds)
    ELSE LET scalar_low == field_to_u128_limb(scalars_lo[k + 1], MsmFunc)
         IN  IF ~scalar_low.ok THEN NoLimbs(scalar_low.err)
             ELSE IF k >= Len(scalars_hi) THEN NoLimbs(OutOfBounds)
             ELSE LET scalar_high == field_to_u128_limb(scalars_hi[k + 1], MsmFunc)
                  IN  IF ~scalar_high.ok THEN NoLimbs(scalar_high.err)
                      ELSE [ok |-> TRUE, err |-> Failed("", ""),
                            low |-> scalar_low.limb, high |-> scalar_high.limb]

\* Mutant of ScalarTooLarge: the group order itself is accepted.
ScalarTooLarge_Strict(scalar_bigint) == BigIntCmpFrom(scalar_bigint, MODULUS, 4) > 0

\* Line 67: scalar_bigint >= ark_grumpkin::FrConfig::MODULUS
ScalarTooLarge(scalar_bigint) == BigIntGeq(scalar_bigint, MODULUS)

\* The loop of multi_scalar_mul from index i (0-based, as in the code) with
\* the bases and scalars collected so far, and the tail of the function.
\* points[i + 2] is the first element read: past the end it panics.
RECURSIVE MsmLoop(_, _, _, _, _, _)
MsmLoop(points, scalars_lo, scalars_hi, i, bases, big_ints) ==
    IF i >= Len(points)
    THEN MsmOutput(msm_bigint(bases, big_ints))
    ELSE IF i + 2 >= Len(points)
    THEN OutOfBounds
    ELSE IF FlagIsMalformed(points[i + 3])
    THEN Failed(MsmFunc, MsgMalformed)
    ELSE LET point == create_point(points[i + 1], points[i + 2], points[i + 3])
             limbs == DecodeLimbs(scalars_lo, scalars_hi, i \div 3)
             limbs_array == LimbsArray(limbs.low, limbs.high)
             scalar_bigint == BigIntNew(limbs_array)
         IN  IF ~point.ok THEN Failed(MsmFunc, point.msg)
             ELSE IF ~limbs.ok THEN limbs.err
             ELSE IF ScalarTooLarge(scalar_bigint)
             THEN Failed(MsmFunc, MsgScalar(HexStr(limbs_array)))
             ELSE MsmLoop(points, scalars_lo, scalars_hi, i + 3,
                          Append(bases, point.point),
                          Append(big_ints, scalar_bigint))

\* multi_scalar_mul(points, scalars_lo, scalars_hi)
multi_scalar_mul(points, scalars_lo, scalars_hi) ==
    IF LengthMismatch(points, scalars_lo, scalars_hi)
    THEN Failed(MsmFunc, MsgLength)
    ELSE MsmLoop(points, scalars_lo, scalars_hi, 0, <<>>, <<>>)

\* Display of an affine point: "infinity", or the decimal coordinates.
Display(P) ==
    IF P.infinity THEN "infinity"
    ELSE "(" \o ToString(P.x) \o ", " \o ToString(P.y) \o ")"

MsgInfinite(point1, point2) ==
    "Infinite input: embedded_curve_add(" \o Display(point1) \o ", "
        \o Display(point2) \o ")"

\* Mutant of IsInfiniteInput: only two infinite operands are rejected.
IsInfiniteInput_Both(point1, point2) == point1 = AffineZero /\ point2 = AffineZero

\* Lines 114-115: one of [point1, point2] equals Affine::zero().
IsInfiniteInput(point1, point2) == point1 = AffineZero \/ point2 = AffineZero

\* embedded_curve_add(input1, input2)
embedded_curve_add(input1, input2) ==
    IF FlagIsMalformed(input1[3]) \/ FlagIsMalformed(input2[3])
    THEN Failed(AddFunc, MsgMalformed)
    ELSE LET point1 == create_point(input1[1], input1[2], input1[3])
             point2 == create_point(input2[1], input2[2], input2[3])
         IN  IF ~point1.ok THEN Failed(AddFunc, point1.msg)
             ELSE IF ~point2.ok THEN Failed(AddFunc, point2.msg)
             ELSE IF IsInfiniteInput(point1.point, point2.point)
             THEN Failed(AddFunc, MsgInfinite(point1.point, point2.point))
             ELSE LET res == Add(point1.point, point2.point)
                  IN  IF xy(res) # <<>>
                      THEN Ok(xy(res)[1], xy(res)[2], 0)
                      ELSE IF ~is_zero(res)
                           THEN Panic("assertion failed: res.is_zero()")
                           ELSE Ok(0, 0, 1)

\* ------------------------------------------------------------------------
\* Inputs of the calls
\* ------------------------------------------------------------------------
\* Largest number of (point, scalar) pairs of a batch.
MaxBatch == 2

\* get_generator(): the generator of the curve, of abscissa 1.
Generator == <<1, 2>>

\* The finite points of the curve.
CurvePoints ==
    {c \in FieldElement \X FieldElement : is_on_curve(new_unchecked(c[1], c[2]))}

\* Point triples (x, y, is_infinite): every point of the curve, and triples
\* that are off the curve, flagged infinite or flagged with a non-boolean.
PointInputs ==
    {<<c[1], c[2], 0>> : c \in CurvePoints}
        \cup {<<1, 1, 0>>, <<0, 0, 0>>, <<1, 1, 1>>, <<1, 2, 1>>, <<0, 0, 1>>,
              <<1, 2, 2>>, <<1, 1, 2>>, <<1, 2, FieldModulus - 1>>}

\* Limbs: small ones, the ones around the low limb of the group order, the
\* largest limb, and field elements that do not fit in a limb.
LimbInputs ==
    {0, 1, 2, 3, (GroupOrder % LimbRange) - 1, GroupOrder % LimbRange,
     (GroupOrder % LimbRange) + 1, LimbRange - 1, LimbRange, LimbRange + 1,
     FieldModulus - 1}

Element(point, lo, hi) == [point |-> point, lo |-> lo, hi |-> hi]

\* The elements of a batch of one pair.
SingleElements ==
    {Element(p, lo, hi) : p \in PointInputs, lo \in LimbInputs, hi \in LimbInputs}

\* The negation of a finite point.
Neg(c) == <<c[1], FMod(0 - c[2])>>

DoubleOf(c) ==
    LET d == Double(new_unchecked(c[1], c[2])) IN <<d.x, d.y>>

\* The points of the batches of several pairs: G, -G, 2G, a triple flagged
\* infinite, one off the curve and one with a non-boolean flag.
BatchPoints ==
    {<<Generator[1], Generator[2], 0>>,
     <<Neg(Generator)[1], Neg(Generator)[2], 0>>,
     <<DoubleOf(Generator)[1], DoubleOf(Generator)[2], 0>>,
     <<1, 1, 1>>, <<1, 1, 0>>, <<1, 2, 2>>}

\* The (lo, hi) limbs of the batches of several pairs: 0, 1, 2, a scalar of
\* two nonzero limbs, the order minus one, the order, an oversized low limb
\* and an oversized high limb.
BatchScalars ==
    {<<0, 0>>, <<1, 0>>, <<2, 0>>, <<LimbRange \div 2 - 3, 1>>,
     <<(GroupOrder - 1) % LimbRange, (GroupOrder - 1) \div LimbRange>>,
     <<GroupOrder % LimbRange, GroupOrder \div LimbRange>>,
     <<LimbRange, 0>>, <<1, LimbRange>>}

BatchElements ==
    {Element(p, s[1], s[2]) : p \in BatchPoints, s \in BatchScalars}

\* The three sequences of a batch of elements: the points flattened three
\* field elements per point, the low limbs, the high limbs.
PointsOf(es) ==
    [k \in 1 .. (3 * Len(es)) |-> es[((k - 1) \div 3) + 1].point[((k - 1) % 3) + 1]]
LosOf(es) == [k \in 1 .. Len(es) |-> es[k].lo]
HisOf(es) == [k \in 1 .. Len(es) |-> es[k].hi]

\* Sequences of any lengths filled with copies of one element.
FillPoints(e, n) == [k \in 1 .. n |-> e.point[((k - 1) % 3) + 1]]
FillLimbs(limb, n) == [k \in 1 .. n |-> limb]

\* ------------------------------------------------------------------------
\* The state machine: the solver holds no state between calls, so a
\* behaviour is one call: the arguments, then the returned value.
\* ------------------------------------------------------------------------
VARIABLES call, result

vars == <<call, result>>

MsmCall(points, scalars_lo, scalars_hi) ==
    [op |-> MsmFunc, points |-> points, scalars_lo |-> scalars_lo,
     scalars_hi |-> scalars_hi, input1 |-> <<>>, input2 |-> <<>>]

AddCall(input1, input2) ==
    [op |-> AddFunc, points |-> <<>>, scalars_lo |-> <<>>, scalars_hi |-> <<>>,
     input1 |-> input1, input2 |-> input2]

\* No value returned yet.
NoResult == [tag |-> "None", func |-> "", msg |-> "", value |-> NoValue]

\* The arguments of a call of multi_scalar_mul: a batch of one pair, a batch
\* of up to MaxBatch pairs, or three sequences of any lengths.
MsmArguments ==
    \/ \E e \in SingleElements :
           call = MsmCall(PointsOf(<<e>>), LosOf(<<e>>), HisOf(<<e>>))
    \/ \E n \in 0 .. MaxBatch : \E es \in [1 .. n -> BatchElements] :
           call = MsmCall(PointsOf(es), LosOf(es), HisOf(es))
    \/ \E e \in BatchElements : \E np \in 0 .. (3 * MaxBatch + 1) :
           \E nl \in 0 .. (MaxBatch + 1) : \E nh \in 0 .. (MaxBatch + 1) :
               call = MsmCall(FillPoints(e, np), FillLimbs(e.lo, nl),
                              FillLimbs(e.hi, nh))

\* The arguments of a call of embedded_curve_add.
AddArguments ==
    \E input1 \in PointInputs : \E input2 \in PointInputs :
        call = AddCall(input1, input2)

Init ==
    /\ MsmArguments \/ AddArguments
    /\ result = NoResult

\* The call of multi_scalar_mul runs and returns.
MultiScalarMul ==
    /\ call.op = MsmFunc
    /\ result = NoResult
    /\ result' = multi_scalar_mul(call.points, call.scalars_lo, call.scalars_hi)
    /\ UNCHANGED call

\* The call of embedded_curve_add runs and returns.
EmbeddedCurveAdd ==
    /\ call.op = AddFunc
    /\ result = NoResult
    /\ result' = embedded_curve_add(call.input1, call.input2)
    /\ UNCHANGED call

Next == MultiScalarMul \/ EmbeddedCurveAdd

Spec == Init /\ [][Next]_vars

\* ------------------------------------------------------------------------
\* Vocabulary of the properties
\* ------------------------------------------------------------------------
\* The call has returned.
Returned == result # NoResult

IsMsmCall == call.op = MsmFunc /\ Returned
IsAddCall == call.op = AddFunc /\ Returned

\* The three sequences of the call are length-consistent.
Consistent ==
    /\ Len(call.points) = 3 * Len(call.scalars_lo)
    /\ Len(call.scalars_lo) = Len(call.scalars_hi)

NumPairs == Len(call.scalars_lo)

\* The k-th (point, lo, hi) pair of a length-consistent call.
PairAt(k) ==
    Element(<<call.points[3 * k - 2], call.points[3 * k - 1], call.points[3 * k]>>,
            call.scalars_lo[k], call.scalars_hi[k])

\* The curve equation on the integers below the field modulus.
OnCurve(x, y) == (y * y) % FieldModulus = (x * x * x + CurveB) % FieldModulus

\* k times the point P by repeated addition.
RECURSIVE Times(_, _)
Times(k, P) == IF k = 0 THEN AffineZero ELSE Add(Times(k - 1, P), P)

\* The points x * FieldModulus + y of the curve that the group order sends to
\* the identity.
SubgroupPoints ==
    {c \in 0 .. (FieldModulus * FieldModulus - 1) :
        /\ OnCurve(c \div FieldModulus, c % FieldModulus)
        /\ Times(GroupOrder, new_unchecked(c \div FieldModulus, c % FieldModulus))
               = AffineZero}

InSubgroup(x, y) == (x * FieldModulus + y) \in SubgroupPoints

BooleanFlag(pt) == pt[3] = 0 \/ pt[3] = 1

\* A valid EmbeddedCurvePoint: flagged infinite, or finite, on the curve and in
\* the subgroup.
ValidPoint(pt) ==
    \/ pt[3] = 1
    \/ pt[3] = 0 /\ OnCurve(pt[1], pt[2]) /\ InSubgroup(pt[1], pt[2])

ValidFinitePoint(pt) == pt[3] = 0 /\ ValidPoint(pt)

\* The group element a valid triple stands for.
PointOf(pt) == IF pt[3] = 1 THEN AffineZero ELSE new_unchecked(pt[1], pt[2])

\* The scalar hi * 2^128 + lo.
ScalarValue(e) == e.hi * LimbRange + e.lo

ValidScalar(e) ==
    e.lo < LimbRange /\ e.hi < LimbRange /\ ScalarValue(e) < GroupOrder

ValidPair(e) == ValidPoint(e.point) /\ ValidScalar(e)

AllPairsValid == \A k \in 1 .. NumPairs : ValidPair(PairAt(k))

\* The result triple that encodes a group element.
Encode(P) == IF P.infinity THEN Ok(0, 0, 1) ELSE Ok(P.x, P.y, 0)

MsmError(msg) == Failed(MsmFunc, msg)

\* The four words of (lo, hi), most significant first, 16 hex digits each.
WordsHex(e) ==
    FormatWord(e.hi \div WordRange) \o FormatWord(e.hi % WordRange)
        \o FormatWord(e.lo \div WordRange) \o FormatWord(e.lo % WordRange)

\* ------------------------------------------------------------------------
\* C1: multi_scalar_mul fails with "Points and scalars must have the same
\* length" exactly when points.length # 3 * scalars_lo.length or
\* scalars_lo.length # scalars_hi.length, whatever the sequences hold.
\* ------------------------------------------------------------------------
C1_LengthError ==
    IsMsmCall =>
        ((~Consistent) <=> (result = MsmError(MsgLength)))

\* The limbs disagree in length only, and the point has a non-boolean flag.
C1_Witness ==
    /\ IsMsmCall
    /\ Len(call.points) = 3 * Len(call.scalars_lo)
    /\ Len(call.scalars_lo) # Len(call.scalars_hi)
    /\ Len(call.points) >= 3
    /\ call.points[3] > 1
    /\ result = MsmError(MsgLength)

\* ------------------------------------------------------------------------
\* C2: on a length-consistent batch of valid points and scalars below the
\* group order the result encodes the sum, one pair at a time, of each point
\* times its scalar, and is the same for every permutation of the pairs.
\* ------------------------------------------------------------------------
\* The multiples G, 2G, .., k G of the generator, by repeated addition.
RECURSIVE GeneratorMultiples(_)
GeneratorMultiples(k) ==
    IF k = 1 THEN <<new_unchecked(Generator[1], Generator[2])>>
    ELSE LET m == GeneratorMultiples(k - 1)
         IN  Append(m, Add(m[k - 1], new_unchecked(Generator[1], Generator[2])))

\* G, 2G, .., (order) G: the last one is the identity.
GroupElements == GeneratorMultiples(GroupOrder)

\* The j in 1 .. order for which the valid point pt is j G.
IndexOf(pt) ==
    CHOOSE j \in 1 .. GroupOrder : GroupElements[j] = PointOf(pt)

\* The valid point pt multiplied by the scalar k: k (j G) = (k j) G.
Product(k, pt) ==
    LET j == (k * IndexOf(pt)) % GroupOrder
    IN  IF j = 0 THEN AffineZero ELSE GroupElements[j]

\* The sum of the first k pairs, one pair at a time.
RECURSIVE SumOfPairs(_)
SumOfPairs(k) ==
    IF k = 0 THEN AffineZero
    ELSE Add(SumOfPairs(k - 1), Product(ScalarValue(PairAt(k)), PairAt(k).point))

PairOrders(n) ==
    {f \in [1 .. n -> 1 .. n] : \A i, j \in 1 .. n : f[i] = f[j] => i = j}

\* The call with its pairs in the order f.
Permuted(f) ==
    LET es == [k \in 1 .. NumPairs |-> PairAt(f[k])]
    IN  multi_scalar_mul(PointsOf(es), LosOf(es), HisOf(es))

C2_MsmIsSumOfProducts ==
    (IsMsmCall /\ Consistent /\ AllPairsValid) =>
        /\ result = Encode(SumOfPairs(NumPairs))
        /\ \A f \in PairOrders(NumPairs) : Permuted(f) = result

\* Two different finite points with different scalars above one, and a
\* finite sum.
C2_Witness ==
    /\ IsMsmCall /\ Consistent /\ AllPairsValid
    /\ NumPairs = 2
    /\ PairAt(1).point # PairAt(2).point
    /\ PairAt(1).point[3] = 0 /\ PairAt(2).point[3] = 0
    /\ ScalarValue(PairAt(1)) > 1 /\ ScalarValue(PairAt(2)) > 1
    /\ ScalarValue(PairAt(1)) # ScalarValue(PairAt(2))
    /\ result.tag = "Ok" /\ result.value[3] = 0

\* ------------------------------------------------------------------------
\* C3: on a length-consistent batch with invalid elements the error is the
\* one of the first failing check: elements in ascending order, and within an
\* element the flag, the point (curve, then subgroup), the low limb, the high
\* limb, the range of the scalar; no later element influences the outcome.
\* ------------------------------------------------------------------------
\* The error of an invalid pair, by the order of the checks.
ElementError(e) ==
    IF ~BooleanFlag(e.point) THEN MsmError(MsgMalformed)
    ELSE IF e.point[3] = 0 /\ ~OnCurve(e.point[1], e.point[2])
    THEN MsmError(MsgNotOnCurve(e.point[1], e.point[2]))
    ELSE IF e.point[3] = 0 /\ ~InSubgroup(e.point[1], e.point[2])
    THEN MsmError(MsgNotInSubgroup(e.point[1], e.point[2]))
    ELSE IF e.lo >= LimbRange THEN MsmError(MsgLimb(e.lo))
    ELSE IF e.hi >= LimbRange THEN MsmError(MsgLimb(e.hi))
    ELSE MsmError(MsgScalar(WordsHex(e)))

HasInvalidPair == \E k \in 1 .. NumPairs : ~ValidPair(PairAt(k))

FirstInvalid ==
    CHOOSE k \in 1 .. NumPairs :
        ~ValidPair(PairAt(k)) /\ \A j \in 1 .. (k - 1) : ValidPair(PairAt(j))

\* The call on the pairs up to the k-th only.
Truncated(k) ==
    LET es == [j \in 1 .. k |-> PairAt(j)]
    IN  multi_scalar_mul(PointsOf(es), LosOf(es), HisOf(es))

C3_FirstFailingCheck ==
    (IsMsmCall /\ Consistent /\ HasInvalidPair) =>
        /\ result = ElementError(PairAt(FirstInvalid))
        /\ result = Truncated(FirstInvalid)

\* The first pair has a scalar equal to the group order, the second a
\* non-boolean flag: the scalar error of the first is returned.
C3_Witness ==
    /\ IsMsmCall /\ Consistent /\ NumPairs = 2
    /\ ValidPoint(PairAt(1).point)
    /\ PairAt(1).lo < LimbRange /\ PairAt(1).hi < LimbRange
    /\ ScalarValue(PairAt(1)) = GroupOrder
    /\ ~BooleanFlag(PairAt(2).point)
    /\ result = MsmError(MsgScalar(WordsHex(PairAt(1))))

\* ------------------------------------------------------------------------
\* C4: with a valid point, a limb of value >= 2^128 makes the call fail with
\* "Limb {hex} is not less than 2^128" where {hex} renders exactly the
\* oversized limb, in the lo or in the hi position; when both are oversized
\* the lo limb is cited; no limb below 2^128 ever produces this error.
\* ------------------------------------------------------------------------
LimbError(limb) == MsmError(MsgLimb(limb))

\* The limbs of the call.
LimbsOfCall ==
    {call.scalars_lo[k] : k \in 1 .. Len(call.scalars_lo)}
        \cup {call.scalars_hi[k] : k \in 1 .. Len(call.scalars_hi)}

C4_LimbOverflow ==
    /\ (IsMsmCall /\ Consistent /\ NumPairs >= 1 /\ ValidPoint(PairAt(1).point)) =>
           /\ PairAt(1).lo >= LimbRange => result = LimbError(PairAt(1).lo)
           /\ (PairAt(1).lo < LimbRange /\ PairAt(1).hi >= LimbRange) =>
                  result = LimbError(PairAt(1).hi)
           /\ (PairAt(1).lo >= LimbRange \/ PairAt(1).hi >= LimbRange) =>
                  \A v \in FieldElement :
                      result = LimbError(v) =>
                          v = (IF PairAt(1).lo >= LimbRange THEN PairAt(1).lo
                                                            ELSE PairAt(1).hi)
    /\ IsMsmCall =>
           \A v \in FieldElement :
               result = LimbError(v) => (v >= LimbRange /\ v \in LimbsOfCall)

\* The low limb fits, the high limb does not: the high limb is cited.
C4_Witness ==
    /\ IsMsmCall /\ Consistent /\ NumPairs = 1
    /\ ValidFinitePoint(PairAt(1).point)
    /\ PairAt(1).lo < LimbRange /\ PairAt(1).lo > 0
    /\ PairAt(1).hi > LimbRange
    /\ result = LimbError(PairAt(1).hi)

\* ------------------------------------------------------------------------
\* C5: with a valid point and limbs lo, hi below 2^128 the pair is rejected
\* with InvalidScalar exactly when hi * 2^128 + lo >= the group order; the
\* four 64-bit words [lo mod 2^64, lo div 2^64, hi mod 2^64, hi div 2^64]
\* reconstruct that value, and the message cites them as 16-hex-digit
\* groups, most significant word first.
\* ------------------------------------------------------------------------
FourWords(e) ==
    <<e.lo % WordRange, e.lo \div WordRange, e.hi % WordRange, e.hi \div WordRange>>

\* Every InvalidScalar error over the limbs below 2^128.
InvalidScalarErrors ==
    {MsmError(MsgScalar(WordsHex(Element(<<0, 0, 1>>, lo, hi)))) :
        lo \in 0 .. (LimbRange - 1), hi \in 0 .. (LimbRange - 1)}

C5_ScalarRange ==
    (IsMsmCall /\ Consistent /\ NumPairs >= 1 /\ ValidPoint(PairAt(1).point)
        /\ PairAt(1).lo < LimbRange /\ PairAt(1).hi < LimbRange) =>
        LET e == PairAt(1)
            w == FourWords(e)
        IN  /\ LimbsArray(e.lo, e.hi) = w
            /\ w[1] + WordRange * w[2] + WordRange * WordRange * w[3]
                   + WordRange * WordRange * WordRange * w[4] = ScalarValue(e)
            /\ (ScalarValue(e) >= GroupOrder)
                   <=> (result = MsmError(MsgScalar(WordsHex(e))))
            /\ NumPairs = 1 =>
                   ((ScalarValue(e) >= GroupOrder) <=> (result \in InvalidScalarErrors))

\* The scalar is the group order itself.
C5_Witness ==
    /\ IsMsmCall /\ Consistent /\ NumPairs = 1
    /\ ValidFinitePoint(PairAt(1).point)
    /\ PairAt(1).lo < LimbRange /\ PairAt(1).hi < LimbRange
    /\ ScalarValue(PairAt(1)) = GroupOrder
    /\ result = MsmError(MsgScalar(WordsHex(PairAt(1))))

\* ------------------------------------------------------------------------
\* C6: an infinity flag other than 0 or 1 fails with "EmbeddedCurvePoint is
\* malformed (non-boolean `is_infinite` flag)": in embedded_curve_add for
\* either operand, whatever the coordinates of both operands; in
\* multi_scalar_mul when the flagged element is the first invalid one.
\* ------------------------------------------------------------------------
C6_NonBooleanFlag ==
    /\ (IsAddCall /\ (~BooleanFlag(call.input1) \/ ~BooleanFlag(call.input2))) =>
           result = Failed(AddFunc, MsgMalformed)
    /\ (IsMsmCall /\ Consistent /\ HasInvalidPair
            /\ ~BooleanFlag(PairAt(FirstInvalid).point)) =>
           result = MsmError(MsgMalformed)

\* The first operand is off the curve, the second has the largest field
\* element as its flag.
C6_Witness ==
    /\ IsAddCall
    /\ call.input1[3] = 0 /\ ~OnCurve(call.input1[1], call.input1[2])
    /\ call.input2[3] = FieldModulus - 1
    /\ result = Failed(AddFunc, MsgMalformed)

\* ------------------------------------------------------------------------
\* C7: embedded_curve_add with boolean flags and valid operands of which at
\* least one is the identity fails with "Infinite input:
\* embedded_curve_add({p1}, {p2})", the operands in input order and the
\* identity rendered as "infinity"; with no identity operand this error is
\* never returned.
\* ------------------------------------------------------------------------
Rendered(pt) ==
    IF pt[3] = 1 THEN "infinity"
    ELSE "(" \o ToString(pt[1]) \o ", " \o ToString(pt[2]) \o ")"

InfiniteInputError(input1, input2) ==
    Failed(AddFunc,
           "Infinite input: embedded_curve_add(" \o Rendered(input1) \o ", "
               \o Rendered(input2) \o ")")

\* Every error of this shape over the operands of the calls.
InfiniteInputErrors ==
    {InfiniteInputError(a, b) :
        a \in {pt \in PointInputs : BooleanFlag(pt)},
        b \in {pt \in PointInputs : BooleanFlag(pt)}}

C7_InfiniteOperand ==
    IsAddCall =>
        /\ (ValidPoint(call.input1) /\ ValidPoint(call.input2)
                /\ (call.input1[3] = 1 \/ call.input2[3] = 1)) =>
               result = InfiniteInputError(call.input1, call.input2)
        /\ (call.input1[3] # 1 /\ call.input2[3] # 1) =>
               result \notin InfiniteInputErrors

\* A finite first operand and an identity second operand.
C7_Witness ==
    /\ IsAddCall
    /\ ValidFinitePoint(call.input1)
    /\ call.input2[3] = 1
    /\ result = InfiniteInputError(call.input1, call.input2)
    /\ result # InfiniteInputError(call.input2, call.input1)

\* ------------------------------------------------------------------------
\* C8: a successful call whose group-theoretic result is the identity
\* returns exactly (0, 0, 1): embedded_curve_add of a point and its negation,
\* multi_scalar_mul of a sum that is the identity; any other successful call
\* returns (x, y, 0) with the affine coordinates of the result.
\* ------------------------------------------------------------------------
\* The triple of a group element: the identity is (0, 0, 1).
TripleOf(S) == IF S = AffineZero THEN <<0, 0, 1>> ELSE <<S.x, S.y, 0>>

C8_CanonicalIdentity ==
    /\ (IsMsmCall /\ Consistent /\ result.tag = "Ok") =>
           /\ result.value = TripleOf(SumOfPairs(NumPairs))
           /\ result.value[3] = 1 <=> SumOfPairs(NumPairs) = AffineZero
    /\ (IsAddCall /\ result.tag = "Ok") =>
           /\ result.value =
                  TripleOf(Add(PointOf(call.input1), PointOf(call.input2)))
           /\ result.value[3] = 0 => OnCurve(result.value[1], result.value[2])
    /\ (IsAddCall /\ ValidFinitePoint(call.input1)
            /\ call.input2 = <<call.input1[1], Neg(call.input1)[2], 0>>) =>
           result = Ok(0, 0, 1)

\* Two finite points with nonzero scalars whose terms cancel.
C8_Witness ==
    /\ IsMsmCall /\ Consistent /\ NumPairs = 2
    /\ ValidFinitePoint(PairAt(1).point) /\ ValidFinitePoint(PairAt(2).point)
    /\ ScalarValue(PairAt(1)) > 0 /\ ScalarValue(PairAt(2)) > 0
    /\ result = Ok(0, 0, 1)

\* ------------------------------------------------------------------------
\* C9: for a valid finite point P, multi_scalar_mul([P.x, P.y, 0], [1], [0])
\* succeeds and returns exactly (P.x, P.y, 0).
\* ------------------------------------------------------------------------
C9_ScalarOne ==
    (IsMsmCall /\ Consistent /\ NumPairs = 1
        /\ ValidFinitePoint(PairAt(1).point)
        /\ PairAt(1).lo = 1 /\ PairAt(1).hi = 0) =>
        result = Ok(PairAt(1).point[1], PairAt(1).point[2], 0)

\* A point other than the generator and its negation.
C9_Witness ==
    /\ IsMsmCall /\ Consistent /\ NumPairs = 1
    /\ ValidFinitePoint(PairAt(1).point)
    /\ PairAt(1).point[1] # Generator[1]
    /\ PairAt(1).lo = 1 /\ PairAt(1).hi = 0
    /\ result = Ok(PairAt(1).point[1], PairAt(1).point[2], 0)

\* ------------------------------------------------------------------------
\* C10: for a valid finite point P, multi_scalar_mul([P.x, P.y, 0], [2], [0])
\* returns the same triple as embedded_curve_add(P, P).
\* ------------------------------------------------------------------------
C10_DoublingAgrees ==
    /\ (IsMsmCall /\ Consistent /\ NumPairs = 1
            /\ ValidFinitePoint(PairAt(1).point)
            /\ PairAt(1).lo = 2 /\ PairAt(1).hi = 0) =>
           /\ result.tag = "Ok"
           /\ result = embedded_curve_add(PairAt(1).point, PairAt(1).point)
    /\ (IsAddCall /\ ValidFinitePoint(call.input1) /\ call.input2 = call.input1) =>
           /\ result.tag = "Ok"
           /\ result = multi_scalar_mul(call.input1, <<2>>, <<0>>)

\* The doubling of a point other than the generator, by multi_scalar_mul.
C10_Witness ==
    /\ IsMsmCall /\ Consistent /\ NumPairs = 1
    /\ ValidFinitePoint(PairAt(1).point)
    /\ PairAt(1).point[1] # Generator[1]
    /\ PairAt(1).lo = 2 /\ PairAt(1).hi = 0
    /\ result.tag = "Ok" /\ result.value[3] = 0

\* ------------------------------------------------------------------------
\* C11: point validation gives every triple with a boolean flag exactly one
\* outcome: flag 1 is the identity for every x and y (in multi_scalar_mul
\* they neither change the result nor cause an error); flag 0 off the curve
\* fails with "Point (x, y) is not on curve"; flag 0 on the curve but outside
\* the subgroup fails with "Point (x, y) is not in correct subgroup";
\* otherwise the point is accepted.  The curve is tested before the
\* subgroup, and each operation reports the error under its own opcode.
\* ------------------------------------------------------------------------
\* The error of a finite triple that is not a valid point, under func.
PointError(func, pt) ==
    IF ~OnCurve(pt[1], pt[2]) THEN Failed(func, MsgNotOnCurve(pt[1], pt[2]))
    ELSE Failed(func, MsgNotInSubgroup(pt[1], pt[2]))

\* The errors that cite the coordinates of pt, under func.
PointErrors(func, pt) ==
    {Failed(func, MsgNotOnCurve(pt[1], pt[2])),
     Failed(func, MsgNotInSubgroup(pt[1], pt[2]))}

\* The pair with the coordinates of a point flagged infinite set to zero.
Canonical(e) ==
    IF e.point[3] = 1 THEN Element(<<0, 0, 1>>, e.lo, e.hi) ELSE e

\* The call with every pair in canonical form.
CanonicalCall ==
    LET es == [k \in 1 .. NumPairs |-> Canonical(PairAt(k))]
    IN  multi_scalar_mul(PointsOf(es), LosOf(es), HisOf(es))

C11_PointValidation ==
    /\ (IsMsmCall /\ Consistent) => result = CanonicalCall
    /\ (IsMsmCall /\ Consistent /\ NumPairs >= 1) =>
           LET pt == PairAt(1).point
           IN  /\ (pt[3] = 1 /\ NumPairs = 1 /\ ValidScalar(PairAt(1))) =>
                      result = Ok(0, 0, 1)
               /\ (pt[3] = 0 /\ ~ValidPoint(pt)) => result = PointError(MsmFunc, pt)
               /\ ValidFinitePoint(pt) => result \notin PointErrors(MsmFunc, pt)
               /\ (ValidFinitePoint(pt) /\ NumPairs = 1 /\ ValidScalar(PairAt(1))) =>
                      result.tag = "Ok"
    /\ (IsAddCall /\ BooleanFlag(call.input1) /\ BooleanFlag(call.input2)) =>
           /\ (call.input1[3] = 0 /\ ~ValidPoint(call.input1)) =>
                  result = PointError(AddFunc, call.input1)
           /\ (ValidPoint(call.input1) /\ call.input2[3] = 0
                   /\ ~ValidPoint(call.input2)) =>
                  result = PointError(AddFunc, call.input2)
           /\ ValidFinitePoint(call.input1) =>
                  result \notin PointErrors(AddFunc, call.input1)
           /\ (ValidPoint(call.input1) /\ ValidFinitePoint(call.input2)) =>
                  result \notin PointErrors(AddFunc, call.input2)
           /\ (ValidFinitePoint(call.input1) /\ ValidFinitePoint(call.input2)) =>
                  result.tag = "Ok"
           /\ (ValidPoint(call.input1) /\ ValidPoint(call.input2)) =>
                  result = embedded_curve_add(Canonical(Element(call.input1, 0, 0)).point,
                                              Canonical(Element(call.input2, 0, 0)).point)

\* A point flagged infinite whose coordinates are off the curve, with a
\* nonzero scalar, next to a finite point: the call succeeds.
C11_Witness ==
    /\ IsMsmCall /\ Consistent /\ NumPairs = 2
    /\ PairAt(1).point[3] = 1
    /\ ~OnCurve(PairAt(1).point[1], PairAt(1).point[2])
    /\ ScalarValue(PairAt(1)) > 0 /\ ValidScalar(PairAt(1))
    /\ ValidFinitePoint(PairAt(2).point) /\ ScalarValue(PairAt(2)) > 0
    /\ result.tag = "Ok" /\ result.value[3] = 0

\* ------------------------------------------------------------------------
\* C12: for every input each operation returns a result triple or a failure
\* tagged with the opcode of the operation called: no index into points,
\* scalars_lo or scalars_hi is out of bounds and the assertion
\* res.is_zero() of embedded_curve_add never fails.
\* ------------------------------------------------------------------------
\* What the operation called returns for the arguments of the call.
Outcome ==
    IF call.op = MsmFunc
    THEN multi_scalar_mul(call.points, call.scalars_lo, call.scalars_hi)
    ELSE embedded_curve_add(call.input1, call.input2)

C12_NoPanic ==
    /\ (~Returned) => Outcome.tag \in {"Ok", "Err"}
    /\ Returned =>
           /\ result.tag \in {"Ok", "Err"}
           /\ result.tag = "Ok" => Len(result.value) = 3
           /\ result.tag = "Err" => result.func = call.op

\* The points are one element longer than three per low limb and the high
\* limbs are fewer than the low limbs: the call fails under its opcode.
C12_Witness ==
    /\ IsMsmCall
    /\ Len(call.points) = 3 * Len(call.scalars_lo) + 1
    /\ Len(call.scalars_lo) > Len(call.scalars_hi)
    /\ result.tag = "Err" /\ result.func = MsmFunc

\* ------------------------------------------------------------------------
\* C13: the boolean-flag check made ahead of point construction is the same
\* as the flag check of the point validator: both reject exactly the field
\* values other than 0 and 1, and both produce the message
\* "EmbeddedCurvePoint is malformed (non-boolean `is_infinite` flag)".
\* ------------------------------------------------------------------------
\* The flags of the call.
FlagsOfCall ==
    IF call.op = MsmFunc
    THEN {call.points[3 * k] : k \in 1 .. (Len(call.points) \div 3)}
    ELSE {call.input1[3], call.input2[3]}

\* The validator rejects the flag for being non-boolean.
ValidatorRejectsFlag(flag) ==
    /\ ~create_point(Generator[1], Generator[2], flag).ok
    /\ ~create_point(1, 1, flag).ok

C13_SameFlagCheck ==
    Returned =>
        \A flag \in FlagsOfCall :
            /\ FlagIsMalformed(flag) <=> ValidatorRejectsFlag(flag)
            /\ FlagIsMalformed(flag) =>
                   create_point(Generator[1], Generator[2], flag).msg = MsgMalformed

\* ------------------------------------------------------------------------
\* C14: every triple returned successfully is a valid EmbeddedCurvePoint
\* (the third component is 0 or 1; if 1 then x = y = 0; if 0 then (x, y) is
\* on the curve and in the subgroup), and multi_scalar_mul of that triple
\* with the scalar (lo = 1, hi = 0) returns the same triple.
\* ------------------------------------------------------------------------
C14_OutputIsValidInput ==
    (Returned /\ result.tag = "Ok") =>
        /\ BooleanFlag(result.value)
        /\ result.value[3] = 1 => (result.value[1] = 0 /\ result.value[2] = 0)
        /\ result.value[3] = 0 =>
               (OnCurve(result.value[1], result.value[2])
                   /\ InSubgroup(result.value[1], result.value[2]))
        /\ multi_scalar_mul(result.value, <<1>>, <<0>>) = result

\* The sum of two different finite points, neither of which is the result.
C14_Witness ==
    /\ IsAddCall /\ result.tag = "Ok" /\ result.value[3] = 0
    /\ call.input1 # call.input2
    /\ result.value # call.input1 /\ result.value # call.input2
    /\ multi_scalar_mul(result.value, <<1>>, <<0>>) = result

====
